---- MODULE Spec2Model ----
(***************************************************************************)
(* Model of the Wavefront OBJ mesh builder of soyuz                        *)
(* (src/src/entity/model/files/obj.rs): ObjectBuilder and its operations.  *)
(*                                                                         *)
(* f32 values are represented by small naturals (0 is 0.0, 1 is 1.0, ...). *)
(* The modelled inputs hold no NaN and no negative zero, so IEEE equality  *)
(* and bit equality coincide on them.                                      *)
(***************************************************************************)
EXTENDS Integers, Sequences, FiniteSets, TLC

VARIABLES
    vertices,        \* ObjectBuilder.vertices: Vec<Vertex>
    normals,         \* ObjectBuilder.normals: Vec<Vertex>
    texture_coords,  \* ObjectBuilder.texture_coords: Vec<TextureCoords>
    indices,         \* ObjectBuilder.indices: Vec<VertexIndices>
    mesh_vertices,   \* ObjectBuilder.mesh_vertices: Vec<model::Vertex>
    mesh_indices,    \* ObjectBuilder.mesh_indices: Vec<u32>
    call,            \* the call the program has made, with its argument
                     \* ([op |-> "none"]: it is between two calls)
    result,          \* what that call returned ("Panic": it unwound instead)
    panicked,        \* the thread that owns the builder has panicked
    pl_pc,           \* process_lines: "idle", or "loop" while its while-loop runs
    pl_lines         \* process_lines: what its iterator has left to yield

vars == <<vertices, normals, texture_coords, indices, mesh_vertices, mesh_indices,
          call, result, panicked, pl_pc, pl_lines>>

builder == <<vertices, normals, texture_coords, indices, mesh_vertices, mesh_indices>>

(***************************************************************************)
(* Bounds of the model.                                                    *)
(***************************************************************************)
MaxPool == 2     \* records kept per raw pool
MaxFaces == 2    \* successful faces per builder

(***************************************************************************)
(* Option<T>: None is the empty sequence, Some(x) the one-element one.     *)
(***************************************************************************)
None == <<>>
Some(x) == <<x>>
is_some(o) == o # None
unwrap(o) == o[1]

\* Vec::get: the element at a 0-based index, None past the end.
VecGet(vec, i) == IF i < Len(vec) THEN Some(vec[i + 1]) ELSE None

(***************************************************************************)
(* Data.                                                                   *)
(***************************************************************************)
MkVertex(x, y, z, w) == [x |-> x, y |-> y, z |-> z, w |-> w]
MkTextureCoords(u, v, w) == [u |-> u, v |-> v, w |-> w]
MkVertexIndices(p, t, n) == [position |-> p, texture_coords |-> t, normal |-> n]

\* #[derive(Default)]: every f32 field is 0.0
VertexDefault == MkVertex(0, 0, 0, 0)
TextureCoordsDefault == MkTextureCoords(0, 0, 0)

\* model::Vertex as ObjectBuilder::get_vertex builds it
ModelVertex(vertex, normal, tc) ==
    [position |-> <<vertex.x, vertex.y, vertex.z>>,
     normal |-> <<normal.x, normal.y, normal.z>>,
     texture_coords |-> <<tc.u, tc.v>>]

\* model::Vertex == model::Vertex, field by field
ModelVertexEq(a, b) ==
    /\ a.position = b.position
    /\ a.normal = b.normal
    /\ a.texture_coords = b.texture_coords

ObjectBuilder(vs, ns, tcs, is, mvs, mis) ==
    [vertices |-> vs, normals |-> ns, texture_coords |-> tcs, indices |-> is,
     mesh_vertices |-> mvs, mesh_indices |-> mis]

\* ObjectBuilder::new
new == ObjectBuilder(<<>>, <<>>, <<>>, <<>>, <<>>, <<>>)

\* the builder the program holds
self == ObjectBuilder(vertices, normals, texture_coords, indices,
                      mesh_vertices, mesh_indices)

(***************************************************************************)
(* ObjectBuilder::get_vertex                                               *)
(***************************************************************************)
\* get_vertex falling back to the default position when the position index
\* is out of range, as it does for an absent normal
get_vertex_default_position(b, v) ==
    LET found == VecGet(b.vertices, v.position)
        vertex == IF found = None THEN Some(VertexDefault) ELSE found
        normal == IF is_some(v.normal)
                  THEN VecGet(b.normals, unwrap(v.normal))
                  ELSE Some(VertexDefault)
        tc == IF is_some(v.texture_coords)
              THEN VecGet(b.texture_coords, unwrap(v.texture_coords))
              ELSE Some(TextureCoordsDefault)
    IN  IF normal = None THEN None
        ELSE IF tc = None THEN None
        ELSE Some(ModelVertex(unwrap(vertex), unwrap(normal), unwrap(tc)))

\* get_vertex taking an absent normal or texture-coordinate reference for a
\* reference to the first record of the pool
get_vertex_absent_as_first(b, v) ==
    LET vertex == VecGet(b.vertices, v.position)
        normal == VecGet(b.normals, IF is_some(v.normal) THEN unwrap(v.normal) ELSE 0)
        tc == VecGet(b.texture_coords,
                     IF is_some(v.texture_coords) THEN unwrap(v.texture_coords) ELSE 0)
    IN  IF vertex = None THEN None
        ELSE IF normal = None THEN None
        ELSE IF tc = None THEN None
        ELSE Some(ModelVertex(unwrap(vertex), unwrap(normal), unwrap(tc)))

get_vertex(b, v) ==
    LET vertex == VecGet(b.vertices, v.position)
        normal == IF is_some(v.normal)
                  THEN VecGet(b.normals, unwrap(v.normal))
                  ELSE Some(VertexDefault)
        tc == IF is_some(v.texture_coords)
              THEN VecGet(b.texture_coords, unwrap(v.texture_coords))
              ELSE Some(TextureCoordsDefault)
    IN  IF vertex = None THEN None
        ELSE IF normal = None THEN None
        ELSE IF tc = None THEN None
        ELSE Some(ModelVertex(unwrap(vertex), unwrap(normal), unwrap(tc)))

(***************************************************************************)
(* ObjectBuilder::add_vertex: [b |-> builder after, pos |-> returned u32]  *)
(***************************************************************************)
\* Iterator::position: the 0-based index of the first entry equal to v
Position(mvs, v) ==
    LET hits == {i \in 1..Len(mvs) : ModelVertexEq(mvs[i], v)}
    IN  IF hits = {} THEN None
        ELSE Some((CHOOSE i \in hits : \A j \in hits : i <= j) - 1)

\* add_vertex without the search: every vertex is pushed
add_vertex_always_push(b, v) ==
    [b |-> [b EXCEPT !.mesh_vertices = Append(@, v)], pos |-> Len(b.mesh_vertices)]

\* add_vertex reading the length after the push instead of before it
add_vertex_len_after_push(b, v) ==
    LET existing_pos == Position(b.mesh_vertices, v)
    IN  IF is_some(existing_pos)
        THEN [b |-> b, pos |-> unwrap(existing_pos)]
        ELSE [b |-> [b EXCEPT !.mesh_vertices = Append(@, v)],
              pos |-> Len(b.mesh_vertices) + 1]

\* (pos as u32 keeps pos: the pool of the model is far below 2^32 entries)
add_vertex(b, v) ==
    LET existing_pos == Position(b.mesh_vertices, v)
    IN  IF is_some(existing_pos)
        THEN [b |-> b, pos |-> unwrap(existing_pos)]
        ELSE [b |-> [b EXCEPT !.mesh_vertices = Append(@, v)],
              pos |-> Len(b.mesh_vertices)]

(***************************************************************************)
(* ObjectBuilder::handle_face: [b |-> builder after, res |-> "Ok" or error]*)
(***************************************************************************)
\* handle_face resolving the corners before it compares their references
handle_face_lookup_first(b, v1, v2, v3) ==
    LET r1 == get_vertex(b, v1)
        r2 == get_vertex(b, v2)
        r3 == get_vertex(b, v3)
    IN  IF r1 = None \/ r2 = None \/ r3 = None
        THEN [b |-> b, res |-> "InvalidIndex"]
        ELSE IF \/ is_some(v1.texture_coords) # is_some(v2.texture_coords)
                \/ is_some(v2.texture_coords) # is_some(v3.texture_coords)
        THEN [b |-> b, res |-> "MissingTextureCoord"]
        ELSE IF \/ is_some(v1.normal) # is_some(v2.normal)
                \/ is_some(v2.normal) # is_some(v3.normal)
        THEN [b |-> b, res |-> "MissingNormal"]
        ELSE
          LET a1 == add_vertex(b, unwrap(r1))
              a2 == add_vertex(a1.b, unwrap(r2))
              a3 == add_vertex(a2.b, unwrap(r3))
          IN  [b |-> [a3.b EXCEPT !.mesh_indices = @ \o <<a1.pos, a2.pos, a3.pos>>],
               res |-> "Ok"]

\* handle_face pushing the index of its first corner three times
handle_face_first_index_thrice(b, v1, v2, v3) ==
    IF \/ is_some(v1.texture_coords) # is_some(v2.texture_coords)
       \/ is_some(v2.texture_coords) # is_some(v3.texture_coords)
    THEN [b |-> b, res |-> "MissingTextureCoord"]
    ELSE IF \/ is_some(v1.normal) # is_some(v2.normal)
            \/ is_some(v2.normal) # is_some(v3.normal)
    THEN [b |-> b, res |-> "MissingNormal"]
    ELSE
      LET r1 == get_vertex(b, v1)
          r2 == get_vertex(b, v2)
          r3 == get_vertex(b, v3)
      IN  IF r1 = None \/ r2 = None \/ r3 = None
          THEN [b |-> b, res |-> "InvalidIndex"]
          ELSE
            LET a1 == add_vertex(b, unwrap(r1))
                a2 == add_vertex(a1.b, unwrap(r2))
                a3 == add_vertex(a2.b, unwrap(r3))
            IN  [b |-> [a3.b EXCEPT !.mesh_indices =
                                        @ \o <<a1.pos, a1.pos, a1.pos>>],
                 res |-> "Ok"]

\* handle_face pushing the three indices last corner first
handle_face_indices_reversed(b, v1, v2, v3) ==
    IF \/ is_some(v1.texture_coords) # is_some(v2.texture_coords)
       \/ is_some(v2.texture_coords) # is_some(v3.texture_coords)
    THEN [b |-> b, res |-> "MissingTextureCoord"]
    ELSE IF \/ is_some(v1.normal) # is_some(v2.normal)
            \/ is_some(v2.normal) # is_some(v3.normal)
    THEN [b |-> b, res |-> "MissingNormal"]
    ELSE
      LET r1 == get_vertex(b, v1)
          r2 == get_vertex(b, v2)
          r3 == get_vertex(b, v3)
      IN  IF r1 = None \/ r2 = None \/ r3 = None
          THEN [b |-> b, res |-> "InvalidIndex"]
          ELSE
            LET a1 == add_vertex(b, unwrap(r1))
                a2 == add_vertex(a1.b, unwrap(r2))
                a3 == add_vertex(a2.b, unwrap(r3))
            IN  [b |-> [a3.b EXCEPT !.mesh_indices =
                                        @ \o <<a3.pos, a2.pos, a1.pos>>],
                 res |-> "Ok"]

\* handle_face resolving and interning one corner after the other
handle_face_corner_by_corner(b, v1, v2, v3) ==
    IF \/ is_some(v1.texture_coords) # is_some(v2.texture_coords)
       \/ is_some(v2.texture_coords) # is_some(v3.texture_coords)
    THEN [b |-> b, res |-> "MissingTextureCoord"]
    ELSE IF \/ is_some(v1.normal) # is_some(v2.normal)
            \/ is_some(v2.normal) # is_some(v3.normal)
    THEN [b |-> b, res |-> "MissingNormal"]
    ELSE
      LET r1 == get_vertex(b, v1)
      IN  IF r1 = None THEN [b |-> b, res |-> "InvalidIndex"]
          ELSE
            LET a1 == add_vertex(b, unwrap(r1))
                r2 == get_vertex(a1.b, v2)
            IN  IF r2 = None THEN [b |-> a1.b, res |-> "InvalidIndex"]
                ELSE
                  LET a2 == add_vertex(a1.b, unwrap(r2))
                      r3 == get_vertex(a2.b, v3)
                  IN  IF r3 = None THEN [b |-> a2.b, res |-> "InvalidIndex"]
                      ELSE
                        LET a3 == add_vertex(a2.b, unwrap(r3))
                        IN  [b |-> [a3.b EXCEPT !.mesh_indices =
                                        @ \o <<a1.pos, a2.pos, a3.pos>>],
                             res |-> "Ok"]

handle_face(b, v1, v2, v3) ==
    IF \/ is_some(v1.texture_coords) # is_some(v2.texture_coords)
       \/ is_some(v2.texture_coords) # is_some(v3.texture_coords)
    THEN [b |-> b, res |-> "MissingTextureCoord"]
    ELSE IF \/ is_some(v1.normal) # is_some(v2.normal)
            \/ is_some(v2.normal) # is_some(v3.normal)
    THEN [b |-> b, res |-> "MissingNormal"]
    ELSE
      LET r1 == get_vertex(b, v1)
          r2 == get_vertex(b, v2)
          r3 == get_vertex(b, v3)
      IN  IF r1 = None \/ r2 = None \/ r3 = None
          THEN [b |-> b, res |-> "InvalidIndex"]
          ELSE
            LET a1 == add_vertex(b, unwrap(r1))
                a2 == add_vertex(a1.b, unwrap(r2))
                a3 == add_vertex(a2.b, unwrap(r3))
            IN  [b |-> [a3.b EXCEPT !.mesh_indices =
                                        @ \o <<a1.pos, a2.pos, a3.pos>>],
                 res |-> "Ok"]

(***************************************************************************)
(* ObjectBuilder::process_line                                             *)
(***************************************************************************)
UnsupportedKinds ==
    {"Point", "Line", "SmoothingGroup", "Group", "UseMtl", "MtlLib", "Name", "Comment"}

\* process_line pushing a normal onto the position pool
process_line_normal_into_vertices(b, line) ==
    CASE line.kind = "Vertex" ->
            [b |-> [b EXCEPT !.vertices = Append(@, line.v)], res |-> "Ok"]
      [] line.kind = "Normal" ->
            [b |-> [b EXCEPT !.vertices = Append(@, line.v)], res |-> "Ok"]
      [] line.kind = "TextureCoords" ->
            [b |-> [b EXCEPT !.texture_coords = Append(@, line.tc)], res |-> "Ok"]
      [] line.kind = "Face" -> handle_face(b, line.v1, line.v2, line.v3)
      [] OTHER -> [b |-> b, res |-> "Panic"]

process_line(b, line) ==
    CASE line.kind = "Vertex" ->
            [b |-> [b EXCEPT !.vertices = Append(@, line.v)], res |-> "Ok"]
      [] line.kind = "Normal" ->
            [b |-> [b EXCEPT !.normals = Append(@, line.v)], res |-> "Ok"]
      [] line.kind = "TextureCoords" ->
            [b |-> [b EXCEPT !.texture_coords = Append(@, line.tc)], res |-> "Ok"]
      [] line.kind = "Face" -> handle_face(b, line.v1, line.v2, line.v3)
      [] OTHER -> [b |-> b, res |-> "Panic"]   \* todo!()

(***************************************************************************)
(* Text.  A line of text is a sequence of one-character strings.  The      *)
(* texts of the model are written with the digits, the space, '/', '#',    *)
(* and letters: its numbers are digit strings, and any other token is      *)
(* malformed for str::parse::<f32> and str::parse::<u32> alike.            *)
(***************************************************************************)
Digits == {"0", "1", "2", "3", "4", "5", "6", "7", "8", "9"}

DigitValue(c) ==
    CASE c = "0" -> 0 [] c = "1" -> 1 [] c = "2" -> 2 [] c = "3" -> 3 [] c = "4" -> 4
      [] c = "5" -> 5 [] c = "6" -> 6 [] c = "7" -> 7 [] c = "8" -> 8 [] c = "9" -> 9

RECURSIVE DecimalValue(_)
DecimalValue(s) ==
    IF s = <<>> THEN 0
    ELSE 10 * DecimalValue(SubSeq(s, 1, Len(s) - 1)) + DigitValue(s[Len(s)])

\* str::parse of a number: Some(value), or None for a parse error
ParseNumber(s) ==
    IF s # <<>> /\ \A i \in 1..Len(s) : s[i] \in Digits
    THEN Some(DecimalValue(s))
    ELSE None

\* str::split(sep): the pieces between the separators, empty ones included
RECURSIVE Split(_, _)
Split(s, sep) ==
    LET at == {i \in 1..Len(s) : s[i] = sep}
    IN  IF at = {} THEN <<s>>
        ELSE LET i == CHOOSE k \in at : \A j \in at : k <= j
             IN  <<SubSeq(s, 1, i - 1)>> \o Split(SubSeq(s, i + 1, Len(s)), sep)

\* str::split_once(' '): None, or Some(<<before, after>>) around the first space
SplitOnce(s) ==
    LET at == {i \in 1..Len(s) : s[i] = " "}
    IN  IF at = {} THEN None
        ELSE LET i == CHOOSE k \in at : \A j \in at : k <= j
             IN  Some(<<SubSeq(s, 1, i - 1), SubSeq(s, i + 1, Len(s))>>)

\* NonZeroU32::new
NonZeroU32New(n) == IF n = 0 THEN None ELSE Some(n)

(***************************************************************************)
(* The FromStr impls.  Each returns [res |-> "Ok", val |-> value], or      *)
(* [res |-> e] with e the Error it fails with ("Panic": it panics).        *)
(***************************************************************************)
Ok(v) == [res |-> "Ok", val |-> v]
Err(e) == [res |-> e]

\* <VertexIndices as FromStr>::from_str: the loop over the '/'-separated
\* fields, from field number k (1-based) with the array `ind` so far
RECURSIVE VertexIndicesLoop(_, _, _)
VertexIndicesLoop(fields, k, ind) ==
    IF k > Len(fields)
    THEN Ok(MkVertexIndices(ind[1], NonZeroU32New(ind[2]), NonZeroU32New(ind[3])))
    ELSE IF fields[k] = <<>> THEN VertexIndicesLoop(fields, k + 1, ind)
    ELSE LET n == ParseNumber(fields[k])
         IN  IF n = None THEN Err("ParseIntError")
             ELSE IF k > 3 THEN Err("Panic")    \* indices[index] out of bounds
             ELSE VertexIndicesLoop(fields, k + 1, [ind EXCEPT ![k] = unwrap(n)])

VertexIndices_from_str(s) == VertexIndicesLoop(Split(s, "/"), 1, <<0, 0, 0>>)

\* <Vertex as FromStr>::from_str
Vertex_from_str(s) ==
    LET nums == Split(s, " ")
        num(i) == ParseNumber(nums[i])
    IN  IF num(1) = None THEN Err("ParseFloatError")
        ELSE IF Len(nums) < 2 THEN Err("MissingNumber")
        ELSE IF num(2) = None THEN Err("ParseFloatError")
        ELSE IF Len(nums) < 3 THEN Err("MissingNumber")
        ELSE IF num(3) = None THEN Err("ParseFloatError")
        ELSE IF Len(nums) < 4
             THEN Ok(MkVertex(unwrap(num(1)), unwrap(num(2)), unwrap(num(3)), 1))
        ELSE IF num(4) = None THEN Err("ParseFloatError")
        ELSE Ok(MkVertex(unwrap(num(1)), unwrap(num(2)), unwrap(num(3)),
                         unwrap(num(4))))

\* <TextureCoords as FromStr>::from_str
TextureCoords_from_str(s) ==
    LET nums == Split(s, " ")
        num(i) == ParseNumber(nums[i])
    IN  IF num(1) = None THEN Err("ParseFloatError")
        ELSE IF Len(nums) < 2 THEN Err("MissingNumber")
        ELSE IF num(2) = None THEN Err("ParseFloatError")
        ELSE IF Len(nums) < 3
             THEN Ok(MkTextureCoords(unwrap(num(1)), unwrap(num(2)), 1))
        ELSE IF num(3) = None THEN Err("ParseFloatError")
        ELSE Ok(MkTextureCoords(unwrap(num(1)), unwrap(num(2)), unwrap(num(3))))

(***************************************************************************)
(* Line::process_line, the directive parser                                *)
(***************************************************************************)
Line_process_line(line) ==
    LET split == SplitOnce(line)
        tag == unwrap(split)[1]
        rest == unwrap(split)[2]
        nums == Split(rest, " ")
        p(i) == VertexIndices_from_str(nums[i])
    IN  IF split = None THEN Err("MissingTag")
        ELSE CASE tag = <<"#">> -> Ok([kind |-> "Comment", name |-> rest])
          [] tag = <<"o">> -> Ok([kind |-> "Name", name |-> rest])
          [] tag = <<"u", "s", "e", "m", "t", "l">> ->
                Ok([kind |-> "UseMtl", name |-> rest])
          [] tag = <<"m", "t", "l", "l", "i", "b">> ->
                Ok([kind |-> "MtlLib", name |-> rest])
          [] tag = <<"g">> -> Ok([kind |-> "Group", name |-> rest])
          [] tag = <<"v">> ->
                LET r == Vertex_from_str(rest)
                IN  IF r.res = "Ok" THEN Ok([kind |-> "Vertex", v |-> r.val]) ELSE r
          [] tag = <<"v", "t">> ->
                LET r == TextureCoords_from_str(rest)
                IN  IF r.res = "Ok" THEN Ok([kind |-> "TextureCoords", tc |-> r.val])
                    ELSE r
          [] tag = <<"v", "n">> ->
                LET r == Vertex_from_str(rest)
                IN  IF r.res = "Ok" THEN Ok([kind |-> "Normal", v |-> r.val]) ELSE r
          [] tag = <<"p">> ->
                LET r == VertexIndices_from_str(rest)
                IN  IF r.res = "Ok" THEN Ok([kind |-> "Point", v1 |-> r.val]) ELSE r
          [] tag = <<"l">> ->
                IF p(1).res # "Ok" THEN p(1)
                ELSE IF Len(nums) < 2 THEN Err("MissingNumber")
                ELSE IF p(2).res # "Ok" THEN p(2)
                ELSE Ok([kind |-> "Line", v1 |-> p(1).val, v2 |-> p(2).val])
          [] tag = <<"f">> ->
                IF p(1).res # "Ok" THEN p(1)
                ELSE IF Len(nums) < 2 THEN Err("MissingNumber")
                ELSE IF p(2).res # "Ok" THEN p(2)
                ELSE IF Len(nums) < 3 THEN Err("MissingNumber")
                ELSE IF p(3).res # "Ok" THEN p(3)
                ELSE Ok([kind |-> "Face", v1 |-> p(1).val, v2 |-> p(2).val,
                         v3 |-> p(3).val])
          [] tag = <<"s">> ->
                IF rest = <<"o", "f", "f">>
                THEN Ok([kind |-> "SmoothingGroup", group |-> None])
                ELSE LET n == ParseNumber(rest)
                     IN  IF n = None THEN Err("ParseIntError")
                         ELSE Ok([kind |-> "SmoothingGroup",
                                  group |-> NonZeroU32New(unwrap(n))])
          [] OTHER -> Err("UnrecognizedTag")

(***************************************************************************)
(* ObjectBuilder::process_lines, one turn of its while-loop:               *)
(* lines.next(), then process_line(line)? on what it yielded.              *)
(***************************************************************************)
\* the loop dropping the error of a failing directive that others follow
process_lines_next_drop_error(b, lines) ==
    IF lines = <<>>
    THEN [b |-> b, lines |-> lines, res |-> "Ok", pc |-> "idle"]
    ELSE LET r == process_line(b, Head(lines))
         IN  IF r.res = "Ok" \/ (r.res # "Panic" /\ Tail(lines) # <<>>)
             THEN [b |-> r.b, lines |-> Tail(lines), res |-> "Running", pc |-> "loop"]
             ELSE [b |-> r.b, lines |-> Tail(lines), res |-> r.res, pc |-> "idle"]

process_lines_next(b, lines) ==
    IF lines = <<>>
    THEN [b |-> b, lines |-> lines, res |-> "Ok", pc |-> "idle"]
    ELSE LET r == process_line(b, Head(lines))
         IN  IF r.res = "Ok"
             THEN [b |-> r.b, lines |-> Tail(lines), res |-> "Running", pc |-> "loop"]
             ELSE [b |-> r.b, lines |-> Tail(lines), res |-> r.res, pc |-> "idle"]

(***************************************************************************)
(* ObjectBuilder::load_file.  fs maps a file name to Some(the lines of the *)
(* file) or to None when the file cannot be opened.  The function opens    *)
(* the file, wraps it in a BufReader and returns the builder it created:   *)
(* [res |-> "Ok", val |-> builder] or [res |-> "IO"].                      *)
(***************************************************************************)
load_file(fs, filename) ==
    LET obj == new
        file == fs[filename]    \* tokio::fs::File::open(filename).await?
    IN  IF file = None THEN Err("IO")
        ELSE Ok(obj)

(***************************************************************************)
(* Inputs.                                                                 *)
(***************************************************************************)
VertexInputs == {MkVertex(0, 0, 0, 1), MkVertex(1, 0, 0, 1)}
NormalInputs == {MkVertex(0, 1, 0, 1)}
TextureCoordsInputs == {MkTextureCoords(1, 0, 1)}

\* position indices of the three corners of a face
PositionTriples == {<<0, 1, 0>>, <<0, 1, 2>>, <<3, 0, 1>>, <<1, 1, 1>>}
\* texture-coordinate / normal references of the three corners
ReferenceTriples == {<<None, None, None>>, <<Some(1), Some(1), Some(1)>>,
                     <<Some(1), None, Some(1)>>, <<None, None, Some(1)>>}

MkFace(p, t, n) ==
    [kind |-> "Face",
     v1 |-> MkVertexIndices(p[1], t[1], n[1]),
     v2 |-> MkVertexIndices(p[2], t[2], n[2]),
     v3 |-> MkVertexIndices(p[3], t[3], n[3])]

FaceInputs ==
    {MkFace(p, t, n) : p \in PositionTriples, t \in ReferenceTriples,
                       n \in ReferenceTriples}

RecordInputs ==
    {[kind |-> "Vertex", v |-> v] : v \in VertexInputs}
    \cup {[kind |-> "Normal", v |-> v] : v \in NormalInputs}
    \cup {[kind |-> "TextureCoords", tc |-> tc] : tc \in TextureCoordsInputs}

UnsupportedInputs ==
    {[kind |-> "Point", v1 |-> MkVertexIndices(0, None, None)],
     [kind |-> "Line", v1 |-> MkVertexIndices(0, None, None),
                       v2 |-> MkVertexIndices(1, None, None)],
     [kind |-> "SmoothingGroup", group |-> Some(1)],
     [kind |-> "Group", name |-> <<"g">>],
     [kind |-> "UseMtl", name |-> <<"m">>],
     [kind |-> "MtlLib", name |-> <<"l", "i", "b">>],
     [kind |-> "Name", name |-> <<"o">>],
     [kind |-> "Comment", name |-> <<"c">>]}

LineInputs == RecordInputs \cup FaceInputs \cup UnsupportedInputs

\* arguments of process_lines
V0 == [kind |-> "Vertex", v |-> MkVertex(0, 0, 0, 1)]
V1 == [kind |-> "Vertex", v |-> MkVertex(1, 0, 0, 1)]
FacePlain(p) == MkFace(p, <<None, None, None>>, <<None, None, None>>)

LinesInputs ==
    {<<>>,
     <<V1, FacePlain(<<0, 0, 0>>)>>,
     <<V0, FacePlain(<<0, 1, 0>>), V1>>,
     <<V0, FacePlain(<<3, 0, 1>>), V1>>,
     <<V0, FacePlain(<<0, 0, 0>>), FacePlain(<<3, 0, 1>>)>>,
     <<FacePlain(<<0, 1, 2>>), FacePlain(<<0, 1, 0>>)>>,
     <<MkFace(<<0, 0, 0>>, <<Some(1), None, Some(1)>>, <<None, None, None>>), V0>>,
     <<V0, [kind |-> "Comment", name |-> <<"c">>], V1>>,
     <<FacePlain(<<1, 0, 0>>), FacePlain(<<1, 1, 1>>)>>,
     <<MkFace(<<0, 1, 0>>, <<Some(1), Some(1), Some(1)>>, <<None, None, None>>),
       FacePlain(<<1, 1, 1>>)>>,
     <<V0, V1, FacePlain(<<1, 2, 1>>), FacePlain(<<2, 1, 2>>)>>}

\* the files of the model, by name
Text_v000 == <<"v", " ", "0", " ", "0", " ", "0">>
Text_v100 == <<"v", " ", "1", " ", "0", " ", "0">>
Text_f010 == <<"f", " ", "0", " ", "1", " ", "0">>
Text_f000 == <<"f", " ", "0", " ", "0", " ", "0">>
Text_x1 == <<"x", " ", "1">>

FileNames == {"tri.obj", "empty.obj", "bad.obj", "missing.obj"}

FileSystem ==
    [name \in FileNames |->
        CASE name = "tri.obj" -> Some(<<Text_v000, Text_v100, <<>>, Text_f010>>)
          [] name = "empty.obj" -> Some(<<>>)
          [] name = "bad.obj" -> Some(<<Text_v000, Text_f000, Text_x1>>)
          [] name = "missing.obj" -> None]

\* The model keeps the pools within MaxPool records and the mesh within
\* MaxFaces faces: a directive is fed only while there is room for it.
Room(b, line) ==
    CASE line.kind = "Vertex" -> Len(b.vertices) < MaxPool
      [] line.kind = "Normal" -> Len(b.normals) < MaxPool
      [] line.kind = "TextureCoords" -> Len(b.texture_coords) < MaxPool
      [] line.kind = "Face" -> Len(b.mesh_indices) < 3 * MaxFaces
      [] OTHER -> TRUE

CountKind(lines, kind) == Cardinality({i \in 1..Len(lines) : lines[i].kind = kind})

RoomAll(b, lines) ==
    /\ Len(b.vertices) + CountKind(lines, "Vertex") <= MaxPool
    /\ Len(b.normals) + CountKind(lines, "Normal") <= MaxPool
    /\ Len(b.texture_coords) + CountKind(lines, "TextureCoords") <= MaxPool
    /\ Len(b.mesh_indices) + 3 * CountKind(lines, "Face") <= 3 * MaxFaces

(***************************************************************************)
(* The program: it owns one builder and calls its operations one at a time.*)
(***************************************************************************)
SetBuilder(b) ==
    /\ vertices' = b.vertices
    /\ normals' = b.normals
    /\ texture_coords' = b.texture_coords
    /\ indices' = b.indices
    /\ mesh_vertices' = b.mesh_vertices
    /\ mesh_indices' = b.mesh_indices

Init ==
    /\ vertices = <<>>
    /\ normals = <<>>
    /\ texture_coords = <<>>
    /\ indices = <<>>
    /\ mesh_vertices = <<>>
    /\ mesh_indices = <<>>
    /\ call = [op |-> "none"]
    /\ result = "none"
    /\ panicked = FALSE
    /\ pl_pc = "idle"
    /\ pl_lines = <<>>

\* self.process_line(line)
ProcessLine(line) ==
    /\ ~panicked
    /\ call.op = "none"
    /\ Room(self, line)
    /\ LET r == process_line(self, line)
       IN  /\ SetBuilder(r.b)
           /\ result' = r.res
           /\ panicked' = (r.res = "Panic")
    /\ call' = [op |-> "process_line", line |-> line]
    /\ UNCHANGED <<pl_pc, pl_lines>>

\* self.process_lines(lines): the call, up to its while-loop
ProcessLinesCall(lines) ==
    /\ ~panicked
    /\ call.op = "none"
    /\ RoomAll(self, lines)
    /\ call' = [op |-> "process_lines", lines |-> lines, start |-> self]
    /\ result' = "Running"
    /\ pl_pc' = "loop"
    /\ pl_lines' = lines
    /\ UNCHANGED <<builder, panicked>>

\* self.process_lines(lines): one turn of the while-loop
ProcessLinesNext ==
    /\ pl_pc = "loop"
    /\ LET r == process_lines_next(self, pl_lines)
       IN  /\ SetBuilder(r.b)
           /\ pl_lines' = r.lines
           /\ pl_pc' = r.pc
           /\ result' = r.res
           /\ panicked' = (r.res = "Panic")
    /\ UNCHANGED call

\* ObjectBuilder::load_file(filename).await: the program keeps the builder
\* it returns
LoadFile(filename) ==
    /\ ~panicked
    /\ call.op = "none"
    /\ LET r == load_file(FileSystem, filename)
       IN  /\ result' = r.res
           /\ IF r.res = "Ok" THEN SetBuilder(r.val) ELSE UNCHANGED builder
    /\ call' = [op |-> "load_file", filename |-> filename]
    /\ UNCHANGED <<panicked, pl_pc, pl_lines>>

\* The caller has looked at what the call returned and goes on.
Continue ==
    /\ ~panicked
    /\ call.op # "none"
    /\ pl_pc = "idle"
    /\ call' = [op |-> "none"]
    /\ result' = "none"
    /\ pl_lines' = <<>>      \* the iterator handed to process_lines is gone
    /\ UNCHANGED <<builder, panicked, pl_pc>>

Next ==
    \/ \E line \in LineInputs : ProcessLine(line)
    \/ \E lines \in LinesInputs : ProcessLinesCall(lines)
    \/ ProcessLinesNext
    \/ \E filename \in FileNames : LoadFile(filename)
    \/ Continue

Spec == Init /\ [][Next]_vars

(***************************************************************************)
(* Properties.                                                             *)
(***************************************************************************)
BuilderErrors == {"MissingTextureCoord", "MissingNormal", "InvalidIndex"}

Corners(face) == {face.v1, face.v2, face.v3}

\* the corners neither all carry nor all lack a texture-coordinate reference
TextureCoordMismatch(face) ==
    /\ \E c \in Corners(face) : is_some(c.texture_coords)
    /\ \E c \in Corners(face) : ~is_some(c.texture_coords)

\* the corners neither all carry nor all lack a normal reference
NormalMismatch(face) ==
    /\ \E c \in Corners(face) : is_some(c.normal)
    /\ \E c \in Corners(face) : ~is_some(c.normal)

\* This step feeds a directive to ObjectBuilder::process_line, called by the
\* program or by the loop of process_lines; FedLine is that directive and
\* Outcome what process_line returned for it.
IsFeed ==
    \/ call.op = "none" /\ call'.op = "process_line"
    \/ pl_pc = "loop" /\ pl_lines # <<>>
FedLine == IF pl_pc = "loop" THEN Head(pl_lines) ELSE call'.line
Outcome == IF result' = "Running" THEN "Ok" ELSE result'

\* the program has just called process_line with a Face, which returned res
FaceReturned(res) ==
    /\ call.op = "process_line"
    /\ call.line.kind = "Face"
    /\ result = res

\* C1: the vertex pool mesh_vertices never holds two equal entries at
\* different positions.
C1_NoDuplicateVertices ==
    \A i, j \in 1..Len(mesh_vertices) :
        i # j => ~ModelVertexEq(mesh_vertices[i], mesh_vertices[j])

\* a face has just been added whose corners reuse a pool entry, in a pool of
\* several entries
C1_Witness ==
    /\ FaceReturned("Ok")
    /\ Len(mesh_vertices) >= 2
    /\ Len(mesh_indices) = 6
    /\ Cardinality({mesh_indices[i] : i \in 1..Len(mesh_indices)}) < 4

\* C2: the length of mesh_indices is a multiple of 3 and every index in it
\* is below the length of mesh_vertices.
C2_IndicesValid ==
    /\ Len(mesh_indices) % 3 = 0
    /\ \A i \in 1..Len(mesh_indices) :
          mesh_indices[i] >= 0 /\ mesh_indices[i] < Len(mesh_vertices)

\* two faces are in the mesh, over several vertices
C2_Witness ==
    /\ Len(mesh_indices) = 6
    /\ Len(mesh_vertices) >= 2
    /\ \E i \in 1..Len(mesh_indices) : mesh_indices[i] = Len(mesh_vertices) - 1

\* every corner of the face refers, counting from 1, to a record of each pool
OneBasedInRange(face) ==
    \A c \in Corners(face) :
        /\ c.position \in 1..Len(vertices)
        /\ is_some(c.texture_coords)
        /\ unwrap(c.texture_coords) \in 1..Len(texture_coords)
        /\ is_some(c.normal)
        /\ unwrap(c.normal) \in 1..Len(normals)

\* the vertex made of the k-th records, counting from 1, that corner c names
OneBasedVertex(c) ==
    ModelVertex(vertices[c.position], normals[unwrap(c.normal)],
                texture_coords[unwrap(c.texture_coords)])

\* C3: with n >= 1 positions, texture coordinates and normals recorded, a Face
\* whose corners all carry the three indices in 1..n succeeds and appends 3
\* indices, index k resolving to the k-th record of its pool.
C3_OneBasedFaceSucceeds ==
    (/\ call.op = "process_line"
     /\ call.line.kind = "Face"
     /\ Len(vertices) = Len(normals)
     /\ Len(vertices) = Len(texture_coords)
     /\ OneBasedInRange(call.line))
    => /\ result = "Ok"
       /\ Len(mesh_indices) >= 3
       /\ LET n == Len(mesh_indices)
              at(i) == mesh_vertices[mesh_indices[i] + 1]
          IN  /\ at(n - 2) = OneBasedVertex(call.line.v1)
              /\ at(n - 1) = OneBasedVertex(call.line.v2)
              /\ at(n) = OneBasedVertex(call.line.v3)

\* C4: process_line returns an "unsupported directive" value for every
\* directive other than Vertex, Normal, TextureCoords and Face, and the
\* builder stays usable.
C4_UnsupportedIsReturned ==
    (call.op = "process_line" /\ call.line.kind \in UnsupportedKinds)
    => /\ result \notin {"Ok", "Panic", "Running", "none"}
       /\ ~panicked

\* C5: a Face whose corners neither all carry nor all lack a texture
\* coordinate fails with MissingTextureCoord; otherwise one whose corners
\* neither all carry nor all lack a normal fails with MissingNormal; either
\* way whatever its indices are, and nothing is appended.
C5_MismatchStep ==
    (IsFeed /\ FedLine.kind = "Face")
    => /\ TextureCoordMismatch(FedLine)
          => (Outcome = "MissingTextureCoord" /\ UNCHANGED builder)
       /\ (~TextureCoordMismatch(FedLine) /\ NormalMismatch(FedLine))
          => (Outcome = "MissingNormal" /\ UNCHANGED builder)

C5_MismatchReported == [][C5_MismatchStep]_vars

\* a face that mixes corners with and without a texture coordinate, and whose
\* first corner names a position that is not there, was refused for the
\* mismatch by a builder that holds a mesh
C5_Witness ==
    /\ FaceReturned("MissingTextureCoord")
    /\ call.line.v1.position > Len(vertices)
    /\ Len(mesh_indices) >= 3

\* C6: resolving a corner whose position index exceeds the number of recorded
\* positions fails with InvalidIndex, whatever its normal and
\* texture-coordinate indices are.
C6_PositionStep ==
    (/\ IsFeed
     /\ FedLine.kind = "Face"
     /\ ~TextureCoordMismatch(FedLine)
     /\ ~NormalMismatch(FedLine)
     /\ \E c \in Corners(FedLine) : c.position > Len(vertices))
    => /\ Outcome = "InvalidIndex"
       /\ \A c \in Corners(FedLine) :
             c.position > Len(vertices) => get_vertex(self, c) = None

C6_PositionOutOfRange == [][C6_PositionStep]_vars

\* a face whose first corner names a position past the pool, with a normal
\* and a texture coordinate that are both there, was refused as InvalidIndex
C6_Witness ==
    /\ FaceReturned("InvalidIndex")
    /\ call.line.v1.position > Len(vertices)
    /\ is_some(call.line.v1.normal)
    /\ unwrap(call.line.v1.normal) < Len(normals)
    /\ is_some(call.line.v1.texture_coords)
    /\ unwrap(call.line.v1.texture_coords) < Len(texture_coords)
    /\ \A c \in {call.line.v2, call.line.v3} : c.position < Len(vertices)

\* the builder after feeding the directives of lines to b in order, each
\* through process_line
RECURSIVE Fed(_, _)
Fed(b, lines) ==
    IF lines = <<>> THEN b
    ELSE Fed(process_line(b, Head(lines)).b, Tail(lines))

\* process_lines has returned an error
ProcessLinesFailed ==
    /\ call.op = "process_lines"
    /\ pl_pc = "idle"
    /\ result \in BuilderErrors

\* C7: process_lines applies the directives in order and stops at the first
\* that fails: it returns the error of that directive, the directives before
\* it all succeeded, and the builder is the one that results from applying
\* those alone.
C7_FailFast ==
    ProcessLinesFailed
    => LET lines == call.lines
           k == Len(lines) - Len(pl_lines)     \* the directive it stopped at
           before(j) == Fed(call.start, SubSeq(lines, 1, j - 1))
       IN  /\ k >= 1
           /\ pl_lines = SubSeq(lines, k + 1, Len(lines))
           /\ \A j \in 1..(k - 1) : process_line(before(j), lines[j]).res = "Ok"
           /\ process_line(before(k), lines[k]).res = result
           /\ self = before(k)

\* process_lines stopped at a failing directive that came after directives
\* that changed the builder and before one that was left alone
C7_Witness ==
    /\ ProcessLinesFailed
    /\ Len(pl_lines) >= 1
    /\ Len(call.lines) - Len(pl_lines) >= 2
    /\ self # call.start

RECURSIVE FeedText(_, _)
FeedText(b, text) ==
    IF text = <<>> THEN Ok(b)
    ELSE IF Head(text) = <<>> THEN FeedText(b, Tail(text))
    ELSE LET parsed == Line_process_line(Head(text))
         IN  IF parsed.res # "Ok" THEN Err(parsed.res)
             ELSE LET r == process_line(b, parsed.val)
                  IN  IF r.res # "Ok" THEN Err(r.res)
                      ELSE FeedText(r.b, Tail(text))

\* C9: the builder a successful load_file returns is the one obtained by
\* feeding the non-empty lines of the file, in order, to an empty builder.
C9_LoadFeedsLines ==
    (call.op = "load_file" /\ result = "Ok")
    => LET fed == FeedText(new, unwrap(FileSystem[call.filename]))
       IN  fed.res = "Ok" /\ self = fed.val

\* C10: every position of mesh_vertices occurs in mesh_indices.
C10_EveryVertexReferenced ==
    \A p \in 0..(Len(mesh_vertices) - 1) :
        \E i \in 1..Len(mesh_indices) : mesh_indices[i] = p

\* a second face has just added a vertex to a pool that held some already
C10_Witness ==
    /\ FaceReturned("Ok")
    /\ Len(mesh_indices) = 6
    /\ Len(mesh_vertices) >= 3
    /\ \E i \in 4..6 : mesh_indices[i] = Len(mesh_vertices) - 1

\* the resolved vertices a corner can produce from the input records
ModelVertexInputs ==
    {ModelVertex(p, n, t) : p \in VertexInputs,
                            n \in NormalInputs \cup {VertexDefault},
                            t \in TextureCoordsInputs \cup {TextureCoordsDefault}}

\* C11: add_vertex is idempotent: called twice in a row with the same vertex
\* it returns the same pool position both times, and the second call leaves
\* mesh_vertices (length and content) as the first call left it.
C11_AddVertexIdempotent ==
    \A v \in ModelVertexInputs :
        LET first == add_vertex(self, v)
            second == add_vertex(first.b, v)
        IN  /\ second.pos = first.pos
            /\ second.b.mesh_vertices = first.b.mesh_vertices

\* the pool holds vertices already and the first call would add a new one
C11_Witness ==
    /\ Len(mesh_vertices) >= 2
    /\ \E v \in ModelVertexInputs :
           /\ Position(mesh_vertices, v) = None
           /\ add_vertex(self, v).pos = Len(mesh_vertices)

\* process_lines has returned Ok
ProcessLinesSucceeded ==
    /\ call.op = "process_lines"
    /\ pl_pc = "idle"
    /\ result = "Ok"

\* the faces among the directives of lines, in their order
FacesOf(lines) == SelectSeq(lines, LAMBDA line : line.kind = "Face")

\* the corner triples (position, normal, texture coordinate) faces refer to
ReferencedCorners(faces) == UNION {Corners(faces[i]) : i \in 1..Len(faces)}

\* distinct corner triples resolve to distinct vertices in the pools of b
ResolveInjective(b, corners) ==
    \A c1, c2 \in corners :
        c1 # c2 => ~ModelVertexEq(unwrap(get_vertex(b, c1)), unwrap(get_vertex(b, c2)))

\* every order in which the directives of a sequence can be taken
Orders(seq) ==
    {[i \in 1..Len(seq) |-> seq[f[i]]] :
        f \in {g \in [1..Len(seq) -> 1..Len(seq)] :
                  \A i, j \in 1..Len(seq) : g[i] = g[j] => i = j}}

\* b with its raw pools and an empty mesh
RawOnly(b) == ObjectBuilder(b.vertices, b.normals, b.texture_coords, b.indices,
                            <<>>, <<>>)

\* C12: with the raw records fixed and distinct corner triples resolving to
\* distinct vertices, faces processed successfully into an empty mesh leave
\* as many mesh vertices as they refer to distinct corner triples, and so
\* does every other order of the same faces.
C12_DistinctTriplesCounted ==
    (/\ ProcessLinesSucceeded
     /\ call.start.mesh_vertices = <<>>
     /\ ResolveInjective(self, ReferencedCorners(FacesOf(call.lines))))
    => LET faces == FacesOf(call.lines)
           count == Cardinality(ReferencedCorners(faces))
       IN  /\ Len(mesh_vertices) = count
           /\ \A order \in Orders(faces) :
                 Len(Fed(RawOnly(self), order).mesh_vertices) = count

\* two faces that share a corner triple were processed: three distinct
\* triples over six corners
C12_Witness ==
    /\ ProcessLinesSucceeded
    /\ call.start.mesh_vertices = <<>>
    /\ Len(FacesOf(call.lines)) = 2
    /\ ResolveInjective(self, ReferencedCorners(FacesOf(call.lines)))
    /\ Cardinality(ReferencedCorners(FacesOf(call.lines))) = 3
    /\ Len(mesh_indices) = 6

\* lines is P position records followed by F faces, F >= 1, whose corners
\* name positions 1..P and nothing else
WellFormedDescription(lines) ==
    LET P == CountKind(lines, "Vertex")
    IN  /\ P >= 1
        /\ Len(lines) > P
        /\ \A i \in 1..Len(lines) :
              IF i <= P THEN lines[i].kind = "Vertex"
              ELSE /\ lines[i].kind = "Face"
                   /\ \A c \in Corners(lines[i]) :
                         /\ c.position \in 1..P
                         /\ c.normal = None
                         /\ c.texture_coords = None

\* C13: process_lines over P positions followed by F faces whose corners
\* name positions 1..P, on a new builder, succeeds and leaves exactly 3 * F
\* indices and at most 4 * F mesh vertices (18 and 24 for the cube).
C13_WellFormedDescriptionLoads ==
    (/\ call.op = "process_lines"
     /\ pl_pc = "idle"
     /\ call.start = new
     /\ WellFormedDescription(call.lines))
    => LET F == CountKind(call.lines, "Face")
       IN  /\ result = "Ok"
           /\ Len(mesh_indices) = 3 * F
           /\ Len(mesh_vertices) <= 4 * F

\* the corners of the faces of the model
CornerInputs == UNION {Corners(face) : face \in FaceInputs}

\* every index the corner c carries finds a record in the pools of b
PresentInRange(b, c) ==
    /\ is_some(VecGet(b.vertices, c.position))
    /\ is_some(c.normal) => is_some(VecGet(b.normals, unwrap(c.normal)))
    /\ is_some(c.texture_coords)
           => is_some(VecGet(b.texture_coords, unwrap(c.texture_coords)))

\* C14: a corner that resolves gets texture coordinate (0,0) for an absent
\* texture-coordinate reference and normal (0,0,0) for an absent normal
\* reference; a corner whose present indices all find a record resolves,
\* whatever it leaves out; and a face that leaves out the texture coordinate
\* at every corner, with its other indices in range, returns Ok.
C14_AbsentReferencesDefault ==
    /\ \A c \in CornerInputs :
          LET r == get_vertex(self, c)
          IN  /\ PresentInRange(self, c) => is_some(r)
              /\ (is_some(r) /\ c.texture_coords = None)
                     => unwrap(r).texture_coords = <<0, 0>>
              /\ (is_some(r) /\ c.normal = None)
                     => unwrap(r).normal = <<0, 0, 0>>
    /\ (/\ call.op = "process_line"
        /\ call.line.kind = "Face"
        /\ \A c \in Corners(call.line) :
              c.texture_coords = None /\ PresentInRange(self, c)
        /\ ~NormalMismatch(call.line))
       => result = "Ok"

\* a face with normals and without texture coordinates has been accepted
\* while both pools held records, and its vertices carry (0,0)
C14_Witness ==
    /\ FaceReturned("Ok")
    /\ texture_coords # <<>>
    /\ \A c \in Corners(call.line) : c.texture_coords = None /\ is_some(c.normal)
    /\ \A c \in Corners(call.line) :
          \E i \in 1..Len(mesh_vertices) :
              /\ mesh_vertices[i] = unwrap(get_vertex(self, c))
              /\ mesh_vertices[i].texture_coords = <<0, 0>>
              /\ mesh_vertices[i].normal # <<0, 0, 0>>

\* the sequence old is still there, entry for entry, at the front of now
IsPrefix(old, now) ==
    /\ Len(old) <= Len(now)
    /\ \A i \in 1..Len(old) : now[i] = old[i]

\* C15: the raw pools are append-only.  A Vertex, Normal or TextureCoords
\* directive returns Ok, appends its record to the end of its own pool and
\* leaves the other two raw pools, mesh_vertices and mesh_indices as they
\* were; a Face, accepted or refused, changes no raw pool; so whatever a
\* step of the builder does, every record stays at its index.
C15_RawPoolStep ==
    /\ IsFeed =>
          /\ FedLine.kind = "Vertex" =>
                /\ Outcome = "Ok"
                /\ vertices' = Append(vertices, FedLine.v)
                /\ UNCHANGED <<normals, texture_coords, mesh_vertices, mesh_indices>>
          /\ FedLine.kind = "Normal" =>
                /\ Outcome = "Ok"
                /\ normals' = Append(normals, FedLine.v)
                /\ UNCHANGED <<vertices, texture_coords, mesh_vertices, mesh_indices>>
          /\ FedLine.kind = "TextureCoords" =>
                /\ Outcome = "Ok"
                /\ texture_coords' = Append(texture_coords, FedLine.tc)
                /\ UNCHANGED <<vertices, normals, mesh_vertices, mesh_indices>>
          /\ FedLine.kind = "Face" =>
                UNCHANGED <<vertices, normals, texture_coords>>
    \* (load_file hands back another builder)
    /\ call'.op # "load_file" =>
          /\ IsPrefix(vertices, vertices')
          /\ IsPrefix(normals, normals')
          /\ IsPrefix(texture_coords, texture_coords')

C15_RawPoolsAppendOnly == [][C15_RawPoolStep]_vars

\* a normal has been appended behind another while the other pools and the
\* mesh held entries
C15_Witness ==
    /\ call.op = "process_line"
    /\ call.line.kind = "Normal"
    /\ result = "Ok"
    /\ Len(normals) = 2
    /\ normals[2] = call.line.v
    /\ vertices # <<>>
    /\ texture_coords # <<>>
    /\ mesh_vertices # <<>>

\* C16: a Face that is refused (MissingTextureCoord, MissingNormal or
\* InvalidIndex, also when its first corners resolve and only a later one
\* does not) leaves every field of the builder as it was.
C16_RefusedFaceStep ==
    (IsFeed /\ FedLine.kind = "Face" /\ Outcome # "Ok")
    => /\ Outcome \in BuilderErrors
       /\ UNCHANGED builder

C16_RefusedFaceChangesNothing == [][C16_RefusedFaceStep]_vars

\* a face was refused for its last corner alone; its first corner resolves
\* to a vertex that the pool, which holds others, does not hold
C16_Witness ==
    /\ FaceReturned("InvalidIndex")
    /\ is_some(get_vertex(self, call.line.v1))
    /\ is_some(get_vertex(self, call.line.v2))
    /\ get_vertex(self, call.line.v3) = None
    /\ mesh_vertices # <<>>
    /\ Position(mesh_vertices, unwrap(get_vertex(self, call.line.v1))) = None

\* where the pool position p first occurs in mesh_indices (0: nowhere)
FirstUse(p) ==
    LET uses == {i \in 1..Len(mesh_indices) : mesh_indices[i] = p}
    IN  IF uses = {} THEN 0 ELSE CHOOSE i \in uses : \A j \in uses : i <= j

\* the pool positions occur for the first time in the order 0, 1, 2, ...
FirstUseOrder ==
    \A p \in 0..(Len(mesh_vertices) - 1) :
        /\ FirstUse(p) >= 1
        /\ p >= 1 => FirstUse(p - 1) < FirstUse(p)

\* C17: an accepted Face appends the pool positions of its three corners to
\* mesh_indices, in corner order; the pool is ordered by first use (the
\* positions first occur in mesh_indices in the order 0, 1, 2, ...); and no
\* directive changes or moves an entry mesh_vertices or mesh_indices has.
C17_AppendStep ==
    /\ (IsFeed /\ FedLine.kind = "Face" /\ Outcome = "Ok") =>
          LET n == Len(mesh_indices)
              corner == <<FedLine.v1, FedLine.v2, FedLine.v3>>
          IN  /\ Len(mesh_indices') = n + 3
              /\ \A k \in 1..3 :
                    /\ mesh_indices'[n + k] < Len(mesh_vertices')
                    /\ ModelVertexEq(mesh_vertices'[mesh_indices'[n + k] + 1],
                                     unwrap(get_vertex(self, corner[k])))
    /\ call'.op # "load_file" =>
          /\ IsPrefix(mesh_vertices, mesh_vertices')
          /\ IsPrefix(mesh_indices, mesh_indices')
    /\ FirstUseOrder'

C17_IndexedInCornerOrder == [][C17_AppendStep]_vars

\* process_lines has accepted a face whose first and last corner are
\* different vertices, both new to the pool, and then a face of old ones
C17_Witness ==
    /\ ProcessLinesSucceeded
    /\ Len(FacesOf(call.lines)) = 2
    /\ call.start.mesh_vertices = <<>>
    /\ Len(mesh_vertices) = 2
    /\ Len(mesh_indices) = 6
    /\ mesh_indices[1] = 0
    /\ mesh_indices[3] = 1
    /\ get_vertex(self, call.lines[1].v1) = Some(mesh_vertices[1])
    /\ get_vertex(self, call.lines[1].v3) = Some(mesh_vertices[2])

(***************************************************************************)
(* The directive parser on its own: the program hands lines of text to     *)
(* Line::process_line, one at a time, and looks at what comes back.        *)
(***************************************************************************)
MaxTokens == 4   \* space-separated tokens after the tag of a line

Tags ==
    {<<"v">>, <<"v", "t">>, <<"v", "n">>, <<"f">>, <<"l">>, <<"p">>, <<"s">>,
     <<"#">>, <<"o">>, <<"g">>, <<"u", "s", "e", "m", "t", "l">>,
     <<"m", "t", "l", "l", "i", "b">>, <<"x">>}

\* tokens: numbers, a malformed one, an empty one, corners with two, three
\* and four '/'-separated fields
TokenInputs ==
    {<<"1">>, <<"1", "2">>, <<"x">>, <<>>, <<"2", "/", "/", "2">>,
     <<"1", "/", "2", "/", "3", "/", "4">>}

RECURSIVE Join(_)
Join(tokens) ==
    IF Len(tokens) = 1 THEN tokens[1]
    ELSE tokens[1] \o <<" ">> \o Join(Tail(tokens))

LineTexts ==
    Tags
    \cup {<<"s", " ", "o", "f", "f">>}
    \cup {tag \o <<" ">> \o Join(tokens) :
             tag \in Tags,
             tokens \in UNION {[1..n -> TokenInputs] : n \in 1..MaxTokens}}

\* Line::process_line(text)
ParseLine(text) ==
    /\ ~panicked
    /\ call.op = "none"
    /\ LET r == Line_process_line(text)
       IN  /\ call' = [op |-> "Line::process_line", text |-> text, parsed |-> r]
           /\ result' = r.res
           /\ panicked' = (r.res = "Panic")
    /\ UNCHANGED <<builder, pl_pc, pl_lines>>

NextParser ==
    \/ \E text \in LineTexts : ParseLine(text)
    \/ Continue

SpecParser == Init /\ [][NextParser]_vars

ParseErrors ==
    {"MissingTag", "UnrecognizedTag", "ParseIntError", "ParseFloatError",
     "MissingNumber"}

\* C18: Line::process_line returns a directive or an error for every line
\* and never aborts; so for a corner token with more than three
\* '/'-separated fields, such as 1/2/3/4.
C18_ParserTotal ==
    call.op = "Line::process_line" => result \in {"Ok"} \cup ParseErrors

\* a corner token as the format writes it: at most three '/'-separated
\* fields, each empty or a number
WellFormedCorner(token) ==
    LET fields == Split(token, "/")
    IN  /\ Len(fields) <= 3
        /\ \A k \in 1..Len(fields) :
              fields[k] = <<>> \/ is_some(ParseNumber(fields[k]))

\* C19: an f line yields a Face only when exactly three space-separated
\* corner tokens follow the tag: with fewer than three (well-formed ones) it
\* fails with MissingNumber, and with four or more it is not accepted as a
\* Face of the first three.
C19_FaceTakesExactlyThree ==
    (/\ call.op = "Line::process_line"
     /\ is_some(SplitOnce(call.text))
     /\ unwrap(SplitOnce(call.text))[1] = <<"f">>)
    => LET tokens == Split(unwrap(SplitOnce(call.text))[2], " ")
       IN  /\ (/\ result = "Ok"
               /\ call.parsed.val.kind = "Face"
               /\ \A k \in 1..Len(tokens) :
                     tokens[k] # <<>> /\ WellFormedCorner(tokens[k]))
                  => Len(tokens) = 3
           /\ (/\ Len(tokens) < 3
               /\ \A k \in 1..Len(tokens) : WellFormedCorner(tokens[k]))
                  => result = "MissingNumber"

====
